---- MODULE Spec2Model ----
(***************************************************************************)
(* EEGraSP graph construction (src/eegrasp/graph.py): gaussian_kernel,     *)
(* compute_graph (ENN and KNN policies), and the leave-one-out parameter   *)
(* sweeps fit_sigma / fit_epsilon with _return_results and                 *)
(* _vectorize_matrix.                                                      *)
(*                                                                         *)
(* Numbers.  Distances, sigma, epsilon and signal samples are integers in  *)
(* a common unit (the kernel and the threshold test are invariant under a  *)
(* change of unit, so D = [[0,1,2],[1,0,1],[2,1,0]], epsilon = 1.5,        *)
(* sigma = 1 is D = [[0,2,4],[2,0,2],[4,2,0]], epsilon = 3, sigma = 2 in   *)
(* half units).  A weight is an exact real: Num(n) is the number n and     *)
(* Exp(p, q) is exp(-p/q) for p, q > 0, p/q in lowest terms, so equality   *)
(* of weights is equality of reals.  A Euclidean norm is held as its       *)
(* radicand (the sum of squares): the square root is strictly increasing,  *)
(* so order and equality of norms are those of the radicands.              *)
(***************************************************************************)
EXTENDS Integers, Sequences, FiniteSets, TLC

\* ------------------------------------------------------------------ bounds
MaxDist == 2
MaxSigma == 2
MaxStop == 4

\* Node counts of the distance matrices the graph builder is called with.
NodeCounts == {2, 3, 4}

\* ----------------------------------------------------------------- values
\* Python's None for an array argument; an absent array.
None == <<>>

Num(n) == [kind |-> "num", p |-> n, q |-> 1]
Zero == Num(0)
One == Num(1)

RECURSIVE GCD(_, _)
GCD(a, b) == IF b = 0 THEN a ELSE GCD(b, a % b)

Exp(p, q) == [kind |-> "exp", p |-> p \div GCD(p, q), q |-> q \div GCD(p, q)]

Range(s) == {s[x] : x \in DOMAIN s}

\* gaussian_kernel(x, sigma) = exp(-x^2 / (2 sigma^2)); exp(0) is the number 1.
gaussian_kernel(x, sigma_) ==
    IF x = 0 THEN One ELSE Exp(x * x, 2 * sigma_ * sigma_)

\* ------------------------------------------------------------ compute_graph
\* graphs.Graph(W): the external graph object, a container of its weights
\* (and of the coordinates set_coordinates attaches).
Graph(weights, coords) == [W |-> weights, coords |-> coords]

NoGraph == Graph(None, None)

\* Mutant of ENNWeights: np.fill_diagonal left out.
ENNWeights_NoDiagonalFill(distances_, epsilon_, sigma_) ==
    [a \in DOMAIN distances_ |->
        [b \in DOMAIN distances_ |->
            IF distances_[a][b] > epsilon_ THEN Zero
            ELSE gaussian_kernel(distances_[a][b], sigma_)]]

\* Mutant of ENNWeights: the mask taken with >= instead of >.
ENNWeights_MaskAtEpsilon(distances_, epsilon_, sigma_) ==
    [a \in DOMAIN distances_ |->
        [b \in DOMAIN distances_ |->
            IF a = b \/ distances_[a][b] >= epsilon_ THEN Zero
            ELSE gaussian_kernel(distances_[a][b], sigma_)]]

\* Lines 69-71: kernel of every distance, entries with distance > epsilon set
\* to 0, then the diagonal set to 0.
ENNWeights(distances_, epsilon_, sigma_) ==
    LET kernel == [a \in DOMAIN distances_ |->
                     [b \in DOMAIN distances_ |->
                        gaussian_kernel(distances_[a][b], sigma_)]]
        masked == [a \in DOMAIN distances_ |->
                     [b \in DOMAIN distances_ |->
                        IF distances_[a][b] > epsilon_ THEN Zero
                        ELSE kernel[a][b]]]
    IN  [a \in DOMAIN distances_ |->
           [b \in DOMAIN distances_ |->
              IF a = b THEN Zero ELSE masked[a][b]]]

\* Squared Euclidean distance between rows a and b of the matrix, the points
\* NearestNeighbors.fit(distances) indexes (default metric: minkowski, p = 2).
RECURSIVE SumSq(_, _, _, _)
SumSq(X, a, b, m) ==
    IF m = 0 THEN 0
    ELSE (X[a][m] - X[b][m]) * (X[a][m] - X[b][m]) + SumSq(X, a, b, m - 1)

RowDist(X, a, b) == SumSq(X, a, b, Len(X))

\* Injective sequences of length n over S.
InjSeqs(S, n) ==
    {s \in [1..n -> S] : \A x, y \in 1..n : x # y => s[x] # s[y]}

\* kneighbors(X)[a]: the n_neighbors points nearest to row a, nearest first;
\* the order among points at equal distance is the library's choice.
kneighbors_row(X, a, n_neighbors) ==
    {s \in InjSeqs(DOMAIN X, n_neighbors) :
        /\ \A x, y \in 1..n_neighbors :
              x < y => RowDist(X, a, s[x]) <= RowDist(X, a, s[y])
        /\ \A m \in DOMAIN X \ Range(s) :
              RowDist(X, a, m) >= RowDist(X, a, s[n_neighbors])}

\* One row of the KNN weights for the neighbour list `ind` of node a (lines
\* 79-81): every index but the first gets the kernel of its distance.
KNNRow(distances_, sigma_, a, ind) ==
    [b \in DOMAIN distances_ |->
        IF \E x \in 2..Len(ind) : ind[x] = b
        THEN gaussian_kernel(distances_[a][b], sigma_)
        ELSE Zero]

\* The weight matrices lines 75-81 can produce: one neighbour list per row.
RECURSIVE KNNRows(_, _, _, _)
KNNRows(distances_, sigma_, k_, n) ==
    IF n = 0 THEN {<<>>}
    ELSE {Append(rows, KNNRow(distances_, sigma_, n, ind)) :
            rows \in KNNRows(distances_, sigma_, k_, n - 1),
            ind \in kneighbors_row(distances_, n, k_ + 1)}

KNNWeights(distances_, sigma_, k_) ==
    KNNRows(distances_, sigma_, k_, Len(distances_))

Raised(e) == [exc |-> e, graph |-> NoGraph, graph_weights |-> None]

Returned(weights, coords) ==
    [exc |-> "none", graph |-> Graph(weights, coords), graph_weights |-> weights]

\* Mutant of compute_graph: the method is validated before W is looked at.
compute_graph_MethodFirst(W_, epsilon_, sigma_, distances_, coordinates_, method_, k_) ==
    IF method_ \notin {"enn", "knn"}
    THEN {Raised("ValueError: Unknown method")}
    ELSE IF W_ # None THEN {Returned(W_, coordinates_)}
    ELSE IF distances_ = None THEN {Raised("TypeError: No distances found")}
    ELSE IF method_ = "enn"
    THEN {Returned(ENNWeights(distances_, epsilon_, sigma_), coordinates_)}
    ELSE {Returned(w, coordinates_) : w \in KNNWeights(distances_, sigma_, k_)}

\* Mutant of compute_graph: no check that distances were given; the ENN
\* branch runs on the absent matrix and yields an empty graph.
compute_graph_NoDistanceCheck(W_, epsilon_, sigma_, distances_, coordinates_, method_, k_) ==
    IF W_ # None THEN {Returned(W_, coordinates_)}
    ELSE IF method_ = "enn"
    THEN {Returned(ENNWeights(distances_, epsilon_, sigma_), coordinates_)}
    ELSE IF method_ = "knn"
    THEN IF k_ + 1 < 1 \/ k_ + 1 > Len(distances_)
         THEN {Raised("ValueError: n_neighbors")}
         ELSE {Returned(w, coordinates_) : w \in KNNWeights(distances_, sigma_, k_)}
    ELSE {Raised("ValueError: Unknown method")}

\* compute_graph(W, epsilon, sigma, distances, graph, coordinates, method, k):
\* the set of its outcomes (one unless KNN meets equidistant points).
compute_graph(W_, epsilon_, sigma_, distances_, coordinates_, method_, k_) ==
    IF W_ = None
    THEN IF distances_ = None
         THEN {Raised("TypeError: No distances found")}
         ELSE IF method_ = "enn"
         THEN {Returned(ENNWeights(distances_, epsilon_, sigma_), coordinates_)}
         ELSE IF method_ = "knn"
         THEN IF k_ + 1 < 1 \/ k_ + 1 > Len(distances_)
              THEN {Raised("ValueError: n_neighbors")}
              ELSE {Returned(w, coordinates_) :
                      w \in KNNWeights(distances_, sigma_, k_)}
         ELSE {Raised("ValueError: Unknown method")}
    ELSE {Returned(W_, coordinates_)}

\* ------------------------------------------------------- sweep utilities
\* np.nan among the samples and errors, which are all >= 0.
NaN == -1

IsNaN(x) == x = NaN

Max(a, b) == IF a >= b THEN a ELSE b

Abs(x) == IF x < 0 THEN -x ELSE x

\* Mutant of arange: the stop value is kept when a whole number of steps
\* reaches it.
arange_Inclusive(start, stop, step_) ==
    [j \in 1..Max(0, ((stop - start) \div step_) + 1) |-> start + (j - 1) * step_]

\* np.arange(start, stop, step) for step > 0: ceil((stop - start) / step)
\* values start + j * step, j = 0, 1, ...
arange(start, stop, step_) ==
    [j \in 1..Max(0, (stop - start + step_ - 1) \div step_) |->
        start + (j - 1) * step_]

\* _vectorize_matrix(mat): the strictly lower triangle, row by row.
RECURSIVE vectorize_matrix_rows(_, _)
vectorize_matrix_rows(mat, a) ==
    IF a = 0 THEN <<>>
    ELSE vectorize_matrix_rows(mat, a - 1) \o [b \in 1..(a - 1) |-> mat[a][b]]

vectorize_matrix(mat) == vectorize_matrix_rows(mat, Len(mat))

\* np.sort(np.unique(v)): the distinct values of v in increasing order.
RECURSIVE SortedSeq(_)
SortedSeq(S) ==
    IF S = {} THEN <<>>
    ELSE LET m == CHOOSE x \in S : \A y \in S : x <= y
         IN  <<m>> \o SortedSeq(S \ {m})

sort_unique(v) == SortedSeq(Range(v))

\* Mutant of BoolIndex: no entry is dropped.
BoolIndex_KeepAll(seq, mask) == seq

\* seq[mask]: the entries of seq where mask holds, in order.
RECURSIVE BoolIndex(_, _)
BoolIndex(seq, mask) ==
    IF seq = <<>> THEN <<>>
    ELSE (IF Head(mask) THEN <<Head(seq)>> ELSE <<>>)
         \o BoolIndex(Tail(seq), Tail(mask))

\* Mutant of argmin: the last minimal index.
argmin_Last(seq) ==
    CHOOSE b \in DOMAIN seq :
        /\ \A c \in DOMAIN seq : seq[b] <= seq[c]
        /\ \A c \in DOMAIN seq : c > b => seq[c] > seq[b]

\* np.argmin(seq) of a non-empty array: the first minimal index.
argmin(seq) ==
    CHOOSE b \in DOMAIN seq :
        /\ \A c \in DOMAIN seq : seq[b] <= seq[c]
        /\ \A c \in DOMAIN seq : c < b => seq[c] > seq[b]

\* The index argument: an int, a list of ints or a tuple of ints.
Scalar(r) == [kind |-> "int", idx |-> <<r>>]
List(rs) == [kind |-> "list", idx |-> rs]
Tuple(rs) == [kind |-> "tuple", idx |-> rs]
NoIndex == [kind |-> "int", idx |-> <<>>]

\* ch_mask[missing_idx] on the one-dimensional mask (lines 233, 323): a
\* tuple of two or more ints is an index into as many dimensions.
TooManyIndices(m) == m.kind = "tuple" /\ Len(m.idx) >= 2

\* arr[missing_idx, :]: one row for an int, a stack of rows for a list.
TakeRows(arr, m) == [x \in DOMAIN m.idx |-> arr[m.idx[x]]]

\* arr[missing_idx, :] = row, the row broadcast over every named row.
PutRow(arr, m, row) ==
    [a \in DOMAIN arr |-> IF a \in Range(m.idx) THEN row ELSE arr[a]]

\* np.linalg.norm(rows - row) with row broadcast over the stack, as its
\* radicand; NaN as soon as one sample is NaN.
RECURSIVE SumSqDiff(_, _, _)
SumSqDiff(r1, r2, t) ==
    IF t = 0 THEN 0
    ELSE (r1[t] - r2[t]) * (r1[t] - r2[t]) + SumSqDiff(r1, r2, t - 1)

RECURSIVE SumRows(_, _, _)
SumRows(rows, row, x) ==
    IF x = 0 THEN 0
    ELSE SumSqDiff(rows[x], row, Len(row)) + SumRows(rows, row, x - 1)

linalg_norm_diff(rows, row) ==
    IF \/ \E x \in DOMAIN rows : \E t \in DOMAIN rows[x] : IsNaN(rows[x][t])
       \/ \E t \in DOMAIN row : IsNaN(row[t])
    THEN NaN
    ELSE SumRows(rows, row, Len(rows))

\* _return_results(error, signal, vparameter, param_name).
return_results(error_, signal_, vparameter, param_name) ==
    LET best_idx == argmin([c \in DOMAIN error_ |-> Abs(error_[c])])
    IN  [error |-> error_, signal |-> signal_,
         best |-> vparameter[best_idx], vparameter |-> vparameter,
         param_name |-> param_name]

\* Values of a sample of the data, and of a reconstructed sample.
SampleVals == {0, 1}
ReconVals == SampleVals \cup {NaN}

\* interpolate_channel(missing_idx, graph, data): the signals the external
\* interpolator may return; the named rows filled (possibly with NaN), every
\* other row as given.
interpolate_channel(m, graph_, signal_) ==
    {[a \in DOMAIN signal_ |-> IF a \in Range(m.idx) THEN f[a] ELSE signal_[a]] :
        f \in [Range(m.idx) -> [DOMAIN signal_[1] -> ReconVals]]}

\* A float array holding the numbers of an integer matrix.
AsWeights(mat) == [a \in DOMAIN mat |-> [b \in DOMAIN mat[a] |-> Num(mat[a][b])]]

\* Mutant of ndarray_copy: the same memory under another name.
ndarray_copy_View(arr) == [values |-> arr, base |-> "data"]

\* data.copy() (lines 236, 326): a new array with the values of arr that
\* shares no memory with it.
ndarray_copy(arr) == [values |-> arr, base |-> "own"]

\* The caller's array after an in-place write through a local name: the
\* written values when the local array shares the caller's memory.
WrittenThrough(base, caller, written) ==
    IF base = "data" THEN written ELSE caller

\* Mutant of compute_graph_distances: the ENN mask and the diagonal fill
\* written into distances itself.
compute_graph_distances_MaskInPlace(W_, epsilon_, distances_, method_) ==
    IF W_ = None /\ distances_ # None /\ method_ = "enn"
    THEN [a \in DOMAIN distances_ |-> [b \in DOMAIN distances_ |->
            IF a = b \/ distances_[a][b] > epsilon_
            THEN 0 ELSE distances_[a][b]]]
    ELSE distances_

\* The caller's distances array when compute_graph ends.  The in-place
\* writes of the branches (lines 70-71, 80-81) name graph_weights, which
\* np.exp (line 32) or np.zeros_like (line 76) allocated; distances is only
\* read, and W is only bound to another name (line 64).
compute_graph_distances(W_, epsilon_, distances_, method_) == distances_

\* -------------------------------------------------------------------- state
VARIABLES
    op, pc, exc,
    W, epsilon, sigma, distances, coordinates, method, k,
    graph, graph_weights,
    missing_idx, data, min_sigma, max_sigma, step,
    vparam, signal, signal_base, all_reconstructed, error, i,
    handed, sweep, results,
    mode, Z, Ws, Zs, learned

args == <<W, epsilon, sigma, distances, coordinates, method, k>>
fit_args == <<missing_idx, data, min_sigma, max_sigma, step>>
fit_locals == <<vparam, signal, signal_base, all_reconstructed, error, i>>
other_args == <<W, epsilon, sigma, coordinates, method, k>>
fit_params == <<missing_idx, min_sigma, max_sigma, step>>
learn_locals == <<mode, Z, Ws, Zs, learned>>
vars == <<op, pc, exc, args, graph, graph_weights, fit_args, fit_locals,
          handed, sweep, results, learn_locals>>

\* ------------------------------------------------------------------ inputs
Methods == {"enn", "knn", "epsilon"}
Sigmas == 1..MaxSigma
DistVals == {2 * d : d \in 0..MaxDist}
EpsVals == -1..(2 * MaxDist + 1)
SomeCoordinates == <<"xyz">>

LowerPairs(n) == {pr \in (1..n) \X (1..n) : pr[1] > pr[2]}

\* Symmetric, non-negative, zero diagonal.
DistanceMatrices(n) ==
    {[a \in 1..n |-> [b \in 1..n |->
        IF a = b THEN 0 ELSE IF a > b THEN f[<<a, b>>] ELSE f[<<b, a>>]]] :
     f \in [LowerPairs(n) -> DistVals]}

AllDistanceMatrices == UNION {DistanceMatrices(n) : n \in NodeCounts}

\* Weight matrices a caller may supply as W (any entries, any diagonal).
SuppliedW == [1..2 -> [1..2 -> {Zero, One}]]

NoResults ==
    [error |-> None, signal |-> None, best |-> 0, vparameter |-> None,
     param_name |-> "none"]

\* What learn_graph has returned: nothing yet, or None.
NoLearned == [W |-> None, Z |-> None]

LearnIdle ==
    /\ mode = "none" /\ Z = None /\ Ws = None /\ Zs = None
    /\ learned = NoLearned

FitIdle ==
    /\ LearnIdle
    /\ missing_idx = NoIndex /\ data = None
    /\ min_sigma = 0 /\ max_sigma = 0 /\ step = 0
    /\ vparam = None /\ signal = None /\ all_reconstructed = None
    /\ signal_base = "none"
    /\ error = None /\ i = 0
    /\ handed = <<>> /\ sweep = <<>> /\ results = NoResults

\* A call of compute_graph about to be made.
InitGraph ==
    /\ op = "compute_graph" /\ pc = "call" /\ exc = "none"
    /\ graph = NoGraph /\ graph_weights = None
    /\ FitIdle
    /\ \/ /\ W = None /\ distances = None
          /\ method \in Methods /\ sigma \in Sigmas /\ epsilon \in {0, 1}
          /\ k \in {0, 1, 5} /\ coordinates \in {None, SomeCoordinates}
       \/ /\ W \in SuppliedW
          /\ distances \in {None} \cup DistanceMatrices(2)
          /\ method \in Methods /\ sigma \in Sigmas /\ epsilon \in {0, 1}
          /\ k \in {0, 1, 5} /\ coordinates \in {None, SomeCoordinates}
       \/ /\ W = None /\ distances \in AllDistanceMatrices
          /\ method = "enn" /\ sigma \in Sigmas /\ epsilon \in EpsVals
          /\ k = 5 /\ coordinates = None
       \/ /\ W = None /\ distances \in AllDistanceMatrices
          /\ method = "knn" /\ sigma \in Sigmas /\ epsilon = 1
          /\ k \in 0..Len(distances) /\ coordinates = None
       \/ /\ W = None /\ distances \in AllDistanceMatrices
          /\ method = "epsilon" /\ sigma \in Sigmas /\ epsilon \in {0, 1}
          /\ k = 5 /\ coordinates = None

\* compute_graph runs to its return or its raise.
ComputeGraph ==
    /\ op = "compute_graph" /\ pc = "call"
    /\ \E r \in compute_graph(W, epsilon, sigma, distances, coordinates, method, k) :
          /\ exc' = r.exc
          /\ graph' = r.graph
          /\ graph_weights' = r.graph_weights
          /\ pc' = IF r.exc = "none" THEN "returned" ELSE "raised"
    /\ distances' = compute_graph_distances(W, epsilon, distances, method)
    /\ UNCHANGED <<op, other_args, fit_args, fit_locals, handed, sweep, results,
                   learn_locals>>

NextGraph == ComputeGraph

\* The KNN calls whose neighbour search has no two points at the same
\* distance from a query point: the neighbour lists are the library's only
\* possible answer.
NoEquidistantRows(X) ==
    \A a, b, c \in DOMAIN X : b # c => RowDist(X, a, b) # RowDist(X, a, c)

InitKNN ==
    /\ InitGraph
    /\ W = None /\ distances # None /\ method = "knn"
    /\ NoEquidistantRows(distances)

SpecKNN == InitKNN /\ [][NextGraph]_vars

SpecGraph == InitGraph /\ [][NextGraph]_vars

\* ------------------------------------------------- claims on compute_graph
Nodes == DOMAIN distances

ENNReturned ==
    /\ op = "compute_graph" /\ pc = "returned"
    /\ W = None /\ method = "enn"

KNNReturned ==
    /\ op = "compute_graph" /\ pc = "returned"
    /\ W = None /\ method = "knn"

\* The spec's scenario D = [[0,1,2],[1,0,1],[2,1,0]], epsilon = 1.5,
\* sigma = 1, in half units.
ScenarioD == <<<<0, 2, 4>>, <<2, 0, 2>>, <<4, 2, 0>>>>
ScenarioCall == distances = ScenarioD /\ epsilon = 3 /\ sigma = 2

\* C3: compute_graph with method 'enn', no W and a symmetric distance matrix
\* returns weights whose entry (a,b) is 0 if a = b or distance(a,b) > epsilon
\* and otherwise exp(-distance(a,b)^2 / (2 sigma^2)); the result is
\* symmetric; in the scenario only the distance-1 edges are kept, with weight
\* exp(-1/2).
C3_ENNWeights ==
    ENNReturned =>
        /\ \A a, b \in Nodes :
              /\ graph_weights[a][b] =
                    IF a = b \/ distances[a][b] > epsilon THEN Zero
                    ELSE IF distances[a][b] = 0 THEN One
                    ELSE Exp(distances[a][b] * distances[a][b], 2 * sigma * sigma)
              /\ graph_weights[a][b] = graph_weights[b][a]
        /\ ScenarioCall =>
              graph_weights = <<<<Zero, Exp(1, 2), Zero>>,
                                <<Exp(1, 2), Zero, Exp(1, 2)>>,
                                <<Zero, Exp(1, 2), Zero>>>>

C3_Witness ==
    /\ ENNReturned /\ ScenarioCall
    /\ graph_weights[1][2] = Exp(1, 2) /\ graph_weights[1][3] = Zero

\* The neighbours compute_graph gave node a: the columns of row a that are
\* not 0.
Neighbours(a) == {b \in Nodes : graph_weights[a][b] # Zero}

\* C4: compute_graph with method 'knn' gives node a nonzero weights exactly
\* at k other nodes with the smallest distance(a, .) in row a of the distance
\* matrix, self excluded; every other entry of the row stays 0.
C4_KNearestByDistance ==
    KNNReturned =>
        \A a \in Nodes :
            /\ Cardinality(Neighbours(a)) = k
            /\ a \notin Neighbours(a)
            /\ \A b \in Neighbours(a) : \A m \in Nodes \ (Neighbours(a) \cup {a}) :
                  distances[a][b] <= distances[a][m]

\* C5: for method 'knn' with k < N - 1 on any valid distance matrix (also one
\* with identical rows), every row of the weights has exactly k nonzero
\* entries and the diagonal is 0.
C5_KNNRowsAndDiagonal ==
    (KNNReturned /\ k < Len(distances) - 1) =>
        \A a \in Nodes :
            /\ Cardinality(Neighbours(a)) = k
            /\ graph_weights[a][a] = Zero

\* A weight in the half-open range [0, 1): 0, or exp(-p/q) with p/q > 0.
InZeroOne(w) == w = Zero \/ (w.kind = "exp" /\ w.p > 0 /\ w.q > 0)

\* C6 as stated: for method 'enn' the weights have zero diagonal and every
\* entry in [0, 1), none equal to 1.
C6_HalfOpenRange ==
    ENNReturned =>
        \A a, b \in Nodes :
            /\ graph_weights[a][a] = Zero
            /\ InZeroOne(graph_weights[a][b])

\* C6 amended: for method 'enn' the weights have zero diagonal and every
\* entry in the closed range [0, 1]; an entry is 1 exactly when it is off the
\* diagonal, its distance is 0 and epsilon >= 0.
C6_ClosedRange ==
    ENNReturned =>
        \A a, b \in Nodes :
            /\ graph_weights[a][a] = Zero
            /\ InZeroOne(graph_weights[a][b]) \/ graph_weights[a][b] = One
            /\ graph_weights[a][b] = One <=>
                  (a # b /\ distances[a][b] = 0 /\ epsilon >= 0)

C6_Witness ==
    /\ ENNReturned
    /\ \E a, b \in Nodes : a # b /\ graph_weights[a][b] = One
    /\ \E a, b \in Nodes : graph_weights[a][b].kind = "exp"

ComputeGraphDone == op = "compute_graph" /\ pc \in {"returned", "raised"}

\* C8: compute_graph raises the invalid-method error exactly when no W is
\* supplied, distances are supplied and method is neither 'enn' nor 'knn';
\* a supplied W is returned as the adjacency unchanged, whatever method,
\* sigma, epsilon and k are, and without error.
C8_InvalidMethod ==
    ComputeGraphDone =>
        /\ exc = "ValueError: Unknown method" <=>
              (W = None /\ distances # None /\ method \notin {"enn", "knn"})
        /\ W # None =>
              /\ pc = "returned" /\ exc = "none"
              /\ graph_weights = W /\ graph = Graph(W, coordinates)

C8_Witness ==
    /\ ComputeGraphDone /\ W # None /\ method = "epsilon"
    /\ pc = "returned" /\ graph_weights = W

\* C9: compute_graph called with neither W nor distances fails with the
\* TypeError, whatever method, sigma, epsilon, k and coordinates are, and
\* returns no graph.
C9_MissingInput ==
    (ComputeGraphDone /\ W = None /\ distances = None) =>
        /\ pc = "raised" /\ exc = "TypeError: No distances found"
        /\ graph = NoGraph /\ graph_weights = None

C9_Witness ==
    /\ ComputeGraphDone /\ W = None /\ distances = None
    /\ method = "epsilon" /\ coordinates # None
    /\ exc = "TypeError: No distances found"

\* ------------------------------------------------ fit_sigma / fit_epsilon
Fits == {"fit_sigma", "fit_epsilon"}
Times == 1..2
FitNodes == 1..3

\* Channels x samples.
Datasets ==
    {[a \in FitNodes |-> [t \in Times |-> v]] : v \in SampleVals} \cup
    {[a \in FitNodes |-> [t \in Times |-> IF a = t THEN 1 ELSE 0]]}

MissingChoices ==
    {Scalar(1), Scalar(3), List(<<2>>), List(<<1, 3>>), Tuple(<<2, 3>>)}

\* A call of fit_sigma or fit_epsilon about to be made.
InitFit ==
    /\ pc = "call" /\ exc = "none"
    /\ LearnIdle
    /\ graph = NoGraph /\ graph_weights = None
    /\ W = None /\ coordinates = None /\ method = "enn" /\ k = 5
    /\ vparam = None /\ signal = None /\ all_reconstructed = None
    /\ signal_base = "none"
    /\ error = None /\ i = 0
    /\ handed = <<>> /\ sweep = <<>> /\ results = NoResults
    /\ data \in Datasets
    /\ missing_idx \in MissingChoices
    /\ \/ /\ op = "fit_sigma"
          /\ distances \in {ScenarioD}
          /\ epsilon \in {3, 4}
          /\ sigma = 1
          /\ min_sigma \in 1..MaxSigma
          /\ max_sigma \in 1..MaxStop
          /\ step \in 1..2
       \/ /\ op = "fit_epsilon"
          /\ distances \in DistanceMatrices(3)
          /\ sigma \in Sigmas
          /\ epsilon = 1
          /\ min_sigma = 0 /\ max_sigma = 0 /\ step = 0

\* The graph built for one candidate: fit_sigma passes distances by keyword
\* (line 249); fit_epsilon passes it as the first positional argument, which
\* is W (line 339).
CandidateGraph(cand) ==
    IF op = "fit_sigma"
    THEN compute_graph(None, epsilon, cand, distances, None, "enn", 5)
    ELSE compute_graph(AsWeights(distances), cand, sigma, None, None, "enn", 5)

\* The graph rebuilt at the best parameter (lines 273 and 363): distances is
\* the first positional argument in both functions.
BestGraph(best) ==
    IF op = "fit_sigma"
    THEN compute_graph(AsWeights(distances), epsilon, best, None, None, "enn", 5)
    ELSE compute_graph(AsWeights(distances), best, sigma, None, None, "enn", 5)

\* Lines 225-243 and 312-333: the grid, the masked clone of data, the arrays.
FitStart ==
    /\ op \in Fits /\ pc = "call"
    /\ vparam' = IF op = "fit_sigma"
                 THEN arange(min_sigma, max_sigma, step)
                 ELSE sort_unique(vectorize_matrix(distances))
    /\ IF TooManyIndices(missing_idx)
       THEN /\ exc' = "IndexError: too many indices for array"
            /\ pc' = "raised"
            /\ UNCHANGED <<data, signal, signal_base, all_reconstructed,
                           error, i>>
       ELSE /\ LET clone == ndarray_copy(data)
                IN  /\ signal' = PutRow(clone.values, missing_idx,
                                        [t \in DOMAIN data[1] |-> NaN])
                    /\ signal_base' = clone.base
                    /\ data' = WrittenThrough(clone.base, data, signal')
            /\ all_reconstructed' =
                  [c \in DOMAIN vparam' |-> [t \in DOMAIN data[1] |-> 0]]
            /\ error' = [c \in DOMAIN vparam' |-> 0]
            /\ i' = 0
            /\ pc' = "loop"
            /\ UNCHANGED exc
    /\ UNCHANGED <<op, args, graph, graph_weights, fit_params, handed,
                   sweep, results, learn_locals>>

\* Lines 246-257 and 336-347: one pass of the loop.  Storing the rows of a
\* list of two or more channels into one row of all_reconstructed raises
\* (shape (m, T) does not broadcast to (T,)).
FitIterate ==
    /\ op \in Fits /\ pc = "loop" /\ i < Len(vparam)
    /\ \E g \in CandidateGraph(vparam[i + 1]) :
       \E reconstructed \in interpolate_channel(missing_idx, g.graph, signal) :
          LET rows == TakeRows(reconstructed, missing_idx)
              err == linalg_norm_diff(TakeRows(data, missing_idx), rows[1])
          IN  /\ graph' = g.graph
              /\ graph_weights' = g.graph_weights
              /\ handed' = Append(handed, g.graph)
              /\ IF Len(rows) >= 2
                 THEN /\ exc' = "ValueError: could not broadcast"
                      /\ pc' = "raised"
                      /\ UNCHANGED <<all_reconstructed, error, i, sweep>>
                 ELSE /\ all_reconstructed' =
                            [all_reconstructed EXCEPT ![i + 1] = rows[1]]
                      /\ error' = [error EXCEPT ![i + 1] = err]
                      /\ i' = i + 1
                      /\ sweep' = Append(sweep, [param |-> vparam[i + 1],
                                                 recon |-> rows[1],
                                                 error |-> err])
                      /\ UNCHANGED <<exc, pc>>
    /\ distances' = IF op = "fit_sigma"
                     THEN compute_graph_distances(None, epsilon, distances, "enn")
                     ELSE distances
    /\ UNCHANGED <<op, other_args, fit_args, vparam, signal, signal_base,
                   results, learn_locals>>

\* Lines 259-277 and 349-366: drop the NaN errors, select, write the best
\* reconstruction back, rebuild the graph, package.
FitSelect ==
    /\ op \in Fits /\ pc = "loop" /\ i = Len(vparam)
    /\ LET valid_idx == [c \in DOMAIN error |-> ~IsNaN(error[c])]
           error_v == BoolIndex(error, valid_idx)
           vparam_v == BoolIndex(vparam, valid_idx)
           all_v == BoolIndex(all_reconstructed, valid_idx)
       IN  /\ error' = error_v
           /\ vparam' = vparam_v
           /\ all_reconstructed' = all_v
           /\ IF error_v = <<>>
              THEN /\ exc' = "ValueError: attempt to get argmin of an empty sequence"
                   /\ pc' = "raised"
                   /\ UNCHANGED <<data, signal, graph, graph_weights, results>>
              ELSE LET best_idx == argmin([c \in DOMAIN error_v |-> Abs(error_v[c])])
                       best == vparam_v[best_idx]
                       filled == PutRow(signal, missing_idx, all_v[best_idx])
                   IN  /\ signal' = filled
                       /\ data' = WrittenThrough(signal_base, data, filled)
                       /\ \E g \in BestGraph(best) :
                             /\ graph' = g.graph
                             /\ graph_weights' = g.graph_weights
                       /\ results' = return_results(error_v, filled, vparam_v,
                                        IF op = "fit_sigma" THEN "sigma" ELSE "epsilon")
                       /\ pc' = "returned"
                       /\ UNCHANGED exc
    /\ UNCHANGED <<op, args, fit_params, signal_base, i, handed, sweep,
                   learn_locals>>

NextFit == FitStart \/ FitIterate \/ FitSelect

SpecFit == InitFit /\ [][NextFit]_vars

\* --------------------------------------------------- claims on the sweeps
\* C1: in fit_epsilon, for every candidate epsilon of the grid, the graph
\* handed to the interpolator is the ENN graph of `distances` with that
\* candidate as threshold and the fixed sigma, so candidates that cut
\* different edge sets hand over different graphs.
C1_CandidateGraphHanded ==
    (op = "fit_epsilon" /\ pc = "loop") =>
        /\ \A c \in DOMAIN handed :
              handed[c].W = ENNWeights(distances, vparam[c], sigma)
        /\ \A c, d \in DOMAIN handed :
              ENNWeights(distances, vparam[c], sigma) #
                 ENNWeights(distances, vparam[d], sigma)
              => handed[c] # handed[d]

\* The candidates of the sweep whose error is a number.
ValidCandidates == {c \in DOMAIN sweep : ~IsNaN(sweep[c].error)}

\* C2: when fit_sigma or fit_epsilon returns (some candidate has a non-NaN
\* error), the best parameter is the lowest-valued grid candidate whose error
\* is the minimum over the non-NaN errors of the sweep, and the missing rows
\* of the returned signal are the rows reconstructed at that candidate; a
\* candidate with a NaN error is never selected.
C2_BestIsFirstMinimum ==
    /\ (op \in Fits /\ ValidCandidates # {}) => pc # "raised"
    /\ (op \in Fits /\ pc = "returned") =>
        \E b \in ValidCandidates :
            /\ results.best = sweep[b].param
            /\ \A c \in ValidCandidates :
                  /\ sweep[b].error <= sweep[c].error
                  /\ sweep[c].error = sweep[b].error =>
                        sweep[b].param <= sweep[c].param
            /\ TakeRows(results.signal, missing_idx) =
                  [x \in DOMAIN missing_idx.idx |-> sweep[b].recon]
            /\ results.signal = signal

\* A returned sweep whose first candidate has a NaN error and whose next two
\* tie at the minimum: the earlier of the two is the best parameter.
C2_Witness ==
    /\ op \in Fits /\ pc = "returned"
    /\ \E a, b, c \in DOMAIN sweep :
          /\ a < b /\ b < c
          /\ IsNaN(sweep[a].error)
          /\ ~IsNaN(sweep[b].error)
          /\ sweep[b].error = sweep[c].error
          /\ results.best = sweep[b].param
          /\ TakeRows(results.signal, missing_idx)[1] = sweep[b].recon
          /\ sweep[b].recon # sweep[c].recon

SeveralChannels == missing_idx.kind # "int" /\ Len(missing_idx.idx) >= 2

\* C7: when missing_idx names several channels, fit_sigma and fit_epsilon
\* complete the sweep: every named row is masked to NaN, each candidate gets
\* its error over all named rows, and the returned signal has all named rows
\* filled with the best candidate's reconstruction.
C7_SeveralChannelsSweep ==
    (op \in Fits /\ SeveralChannels) =>
        /\ exc \notin {"ValueError: could not broadcast",
                       "IndexError: too many indices for array"}
        /\ pc = "loop" =>
              /\ \A a \in Range(missing_idx.idx) : \A t \in DOMAIN signal[a] :
                    IsNaN(signal[a][t])
              /\ Len(sweep) = i
        /\ pc = "returned" =>
              \E b \in ValidCandidates :
                  TakeRows(results.signal, missing_idx) =
                     [x \in DOMAIN missing_idx.idx |-> sweep[b].recon]

Grid ==
    IF op = "fit_sigma"
    THEN arange(min_sigma, max_sigma, step)
    ELSE sort_unique(vectorize_matrix(distances))

FitDone == op \in Fits /\ pc \in {"returned", "raised"}

\* Every candidate of the grid was evaluated and none has a non-NaN error;
\* an empty grid is the case of no candidate at all.
NoValidCandidate == Len(sweep) = Len(Grid) /\ ValidCandidates = {}

C13_EmptyGridWitness ==
    /\ FitDone /\ Grid = <<>> /\ min_sigma >= max_sigma
    /\ exc = "ValueError: attempt to get argmin of an empty sequence"


\* ------------------------------------------------------------ learn_graph
\* The cut-off 1e-5 of lines 161, 177 and 187, in units of 1e-6.
Threshold == 10

\* Entries the external solver may return, in units of 1e-6: NaN, a negative
\* number, zero, a number just under the cut-off, the cut-off, a larger one.
SolverVals == {NaN, -10, 0, 9, 10, 11}

\* x < y on floats: False as soon as an operand is NaN.
float_less(x, y) == ~IsNaN(x) /\ ~IsNaN(y) /\ x < y

\* Mutant of threshold_weights: nothing is set to zero.
threshold_weights_Kept(Wm) == Wm

\* W[W < 1e-5] = 0.
threshold_weights(Wm) ==
    [a \in DOMAIN Wm |-> [b \in DOMAIN Wm[a] |->
        IF float_less(Wm[a][b], Threshold) THEN 0 ELSE Wm[a][b]]]

\* graph_learning.graph_log_degree(Z, a, b, ...): the external solver, any
\* float matrix of the shape of Z.
graph_log_degree(Z_) == [DOMAIN Z_ -> [DOMAIN Z_ -> SolverVals]]

\* The square root of a perfect square.
isqrt(n) == CHOOSE r \in 0..n : r * r = n

\* euc_dist(d): the Euclidean distance between every two rows of d, in half
\* units (the mean over two trials is then a whole number of them).
euc_dist(d) ==
    [a \in DOMAIN d |-> [b \in DOMAIN d |->
        2 * isqrt(SumSqDiff(d[a], d[b], Len(d[a])))]]

\* np.zeros((trials, n, n)).
zeros_stack(trials, n) == [t \in 1..trials |-> [a \in 1..n |-> [b \in 1..n |-> 0]]]

RECURSIVE SumOverTrials(_, _, _, _)
SumOverTrials(stack, a, b, t) ==
    IF t = 0 THEN 0 ELSE stack[t][a][b] + SumOverTrials(stack, a, b, t - 1)

\* np.mean(Zs, axis=0).
np_mean(stack) ==
    [a \in DOMAIN stack[1] |-> [b \in DOMAIN stack[1] |->
        SumOverTrials(stack, a, b, Len(stack)) \div Len(stack)]]

\* The data argument: an array with its number of dimensions, or None.
Array(nd, arr) == [ndim |-> nd, array |-> arr]
NoArray == [ndim |-> 0, array |-> None]

Modes == {"Average", "Trials", "average"}

\* Channels x samples, with whole-number distances between the channels.
LearnTrialData ==
    {<<<<0, 0>>, <<0, 1>>>>, <<<<1, 0>>, <<1, 0>>>>}

\* Trials x channels x samples: one trial, two different trials, two equal
\* trials.
LearnStacks ==
    {<<d>> : d \in LearnTrialData}
    \cup {<<<<<<0, 0>>, <<0, 1>>>>, <<<<1, 0>>, <<1, 0>>>>>>,
          <<<<<<1, 0>>, <<1, 0>>>>, <<<<1, 0>>, <<1, 0>>>>>>}

LearnDatasets ==
    {NoArray}
    \cup {Array(2, d) : d \in LearnTrialData}
    \cup {Array(3, ds) : ds \in LearnStacks}

\* A call of learn_graph about to be made.
InitLearn ==
    /\ op = "learn_graph" /\ pc = "call" /\ exc = "none"
    /\ graph = NoGraph /\ graph_weights = None
    /\ W = None /\ epsilon = 1 /\ sigma = 1 /\ distances = None
    /\ coordinates = None /\ method = "enn" /\ k = 5
    /\ missing_idx = NoIndex
    /\ min_sigma = 0 /\ max_sigma = 0 /\ step = 0
    /\ vparam = None /\ signal = None /\ all_reconstructed = None
    /\ signal_base = "none"
    /\ error = None /\ i = 0
    /\ handed = <<>> /\ sweep = <<>> /\ results = NoResults
    /\ Z = None /\ Ws = None /\ Zs = None /\ learned = NoLearned
    /\ mode \in Modes
    /\ data \in LearnDatasets

learn_frame ==
    <<op, epsilon, sigma, distances, coordinates, method, k, graph,
      graph_weights, fit_args, vparam, signal, signal_base,
      all_reconstructed, error, handed, sweep, results, mode>>

\* Line 147: data.ndim of the default data=None.
LearnNoData ==
    /\ op = "learn_graph" /\ pc = "call" /\ data = NoArray
    /\ exc' = "AttributeError: 'NoneType' object has no attribute 'ndim'"
    /\ pc' = "raised"
    /\ UNCHANGED <<learn_frame, W, Z, Ws, Zs, learned, i>>

\* Lines 149 and 154: the stacks of mode 'Trials'.
LearnTrialsStart ==
    /\ op = "learn_graph" /\ pc = "call"
    /\ data.ndim = 3 /\ mode = "Trials"
    /\ Zs' = zeros_stack(Len(data.array), Len(data.array[1]))
    /\ Ws' = zeros_stack(Len(data.array), Len(data.array[1]))
    /\ i' = 0
    /\ pc' = "trials"
    /\ UNCHANGED <<learn_frame, exc, W, Z, learned>>

\* Lines 155-164: one trial.
LearnTrial ==
    /\ op = "learn_graph" /\ pc = "trials" /\ i < Len(data.array)
    /\ LET Zd == euc_dist(data.array[i + 1])
       IN  \E solved \in graph_log_degree(Zd) :
              LET Wd == threshold_weights(solved)
              IN  /\ Z' = Zd
                  /\ W' = Wd
                  /\ Ws' = [Ws EXCEPT ![i + 1] = Wd]
                  /\ Zs' = [Zs EXCEPT ![i + 1] = Zd]
    /\ i' = i + 1
    /\ UNCHANGED <<learn_frame, exc, pc, learned>>

\* Line 166.
LearnTrialsReturn ==
    /\ op = "learn_graph" /\ pc = "trials" /\ i = Len(data.array)
    /\ learned' = [W |-> Ws, Z |-> Zs]
    /\ pc' = "returned"
    /\ UNCHANGED <<learn_frame, exc, W, Z, Ws, Zs, i>>

\* Lines 149 and 168.
LearnAverageStart ==
    /\ op = "learn_graph" /\ pc = "call"
    /\ data.ndim = 3 /\ mode = "Average"
    /\ Zs' = zeros_stack(Len(data.array), Len(data.array[1]))
    /\ i' = 0
    /\ pc' = "average"
    /\ UNCHANGED <<learn_frame, exc, W, Z, Ws, learned>>

\* Lines 170-172: the distances of one trial.
LearnAverageDistance ==
    /\ op = "learn_graph" /\ pc = "average" /\ i < Len(data.array)
    /\ Zs' = [Zs EXCEPT ![i + 1] = euc_dist(data.array[i + 1])]
    /\ i' = i + 1
    /\ UNCHANGED <<learn_frame, exc, pc, W, Z, Ws, learned>>

\* Lines 174-179: the graph of the mean distances.
LearnAverageSolve ==
    /\ op = "learn_graph" /\ pc = "average" /\ i = Len(data.array)
    /\ LET Zm == np_mean(Zs)
       IN  \E solved \in graph_log_degree(Zm) :
              LET Wm == threshold_weights(solved)
              IN  /\ Z' = Zm
                  /\ W' = Wm
                  /\ learned' = [W |-> Wm, Z |-> Zm]
    /\ pc' = "returned"
    /\ UNCHANGED <<learn_frame, exc, Ws, Zs, i>>

\* Lines 147-179 with a mode that is neither 'Trials' nor 'Average': the
\* function ends without a return statement.
LearnOtherMode ==
    /\ op = "learn_graph" /\ pc = "call"
    /\ data.ndim = 3 /\ mode \notin {"Trials", "Average"}
    /\ Zs' = zeros_stack(Len(data.array), Len(data.array[1]))
    /\ learned' = NoLearned
    /\ pc' = "returned"
    /\ UNCHANGED <<learn_frame, exc, W, Z, Ws, i>>

\* Lines 180-189: data that is not 3-D.  The solver runs twice and the first
\* result is replaced by the second.
Learn2D ==
    /\ op = "learn_graph" /\ pc = "call"
    /\ data # NoArray /\ data.ndim # 3
    /\ LET Zd == euc_dist(data.array)
       IN  /\ graph_log_degree(Zd) # {}
           /\ \E solved \in graph_log_degree(Zd) :
                 LET Wd == threshold_weights(solved)
                 IN  /\ Z' = Zd
                     /\ W' = Wd
                     /\ learned' = [W |-> Wd, Z |-> Zd]
    /\ pc' = "returned"
    /\ UNCHANGED <<learn_frame, exc, Ws, Zs, i>>

NextLearn ==
    \/ LearnNoData
    \/ LearnTrialsStart \/ LearnTrial \/ LearnTrialsReturn
    \/ LearnAverageStart \/ LearnAverageDistance \/ LearnAverageSolve
    \/ LearnOtherMode
    \/ Learn2D

SpecLearn == InitLearn /\ [][NextLearn]_vars

\* --------------------------------------------------- claims on learn_graph
LearnReturned == op = "learn_graph" /\ pc = "returned" /\ learned # NoLearned

\* The weight matrices of what was returned: the slices of the stack of
\* mode 'Trials', the one matrix otherwise.
LearnedSlices ==
    IF data.ndim = 3 /\ mode = "Trials"
    THEN {learned.W[t] : t \in DOMAIN learned.W}
    ELSE {learned.W}

\* One weight matrix and one distance matrix per trial, each channels x
\* channels.
StackPerTrial ==
    (data.ndim = 3 /\ mode = "Trials") =>
        /\ DOMAIN learned.W = DOMAIN data.array
        /\ DOMAIN learned.Z = DOMAIN data.array
        /\ \A t \in DOMAIN data.array :
              /\ DOMAIN learned.W[t] = DOMAIN data.array[t]
              /\ DOMAIN learned.Z[t] = DOMAIN data.array[t]
              /\ learned.Z[t] = euc_dist(data.array[t])
              /\ \A a \in DOMAIN learned.W[t] :
                    DOMAIN learned.W[t][a] = DOMAIN data.array[t]

\* C12 as stated: every weight learn_graph returns is exactly 0 or at least
\* 1e-5, whatever the solver returned, on the 2-D path, in mode 'Average'
\* and in every per-trial slice of mode 'Trials', whose stacks hold one
\* weight matrix and one distance matrix per trial.
C12_ZeroOrAtLeastThreshold ==
    LearnReturned =>
        /\ StackPerTrial
        /\ \A Wm \in LearnedSlices : \A a \in DOMAIN Wm : \A b \in DOMAIN Wm[a] :
              \/ Wm[a][b] = 0
              \/ ~IsNaN(Wm[a][b]) /\ Wm[a][b] >= Threshold

\* C12 amended: every weight learn_graph returns is exactly 0, at least
\* 1e-5, or NaN (a NaN of the solver is not below 1e-5 and is kept), on the
\* 2-D path, in mode 'Average' and in every per-trial slice of mode
\* 'Trials', whose stacks hold one weight matrix and one distance matrix per
\* trial.
C12_ZeroThresholdOrNaN ==
    LearnReturned =>
        /\ StackPerTrial
        /\ \A Wm \in LearnedSlices : \A a \in DOMAIN Wm : \A b \in DOMAIN Wm[a] :
              \/ Wm[a][b] = 0
              \/ IsNaN(Wm[a][b])
              \/ Wm[a][b] >= Threshold

\* Two trials returned with different weight matrices, holding a zero, the
\* cut-off itself and a NaN.
C12_Witness ==
    /\ LearnReturned /\ data.ndim = 3 /\ mode = "Trials"
    /\ Len(learned.W) = 2 /\ learned.W[1] # learned.W[2]
    /\ learned.Z[1] # learned.Z[2]
    /\ \E a, b \in 1..2 : learned.W[1][a][b] = 0 /\ a # b
    /\ \E a, b \in 1..2 : learned.W[1][a][b] = Threshold
    /\ \E a, b \in 1..2 : IsNaN(learned.W[2][a][b])

====
